---- MODULE Spec2Model ----
(***************************************************************************)
(* UMaT Student Portal: the course-registration ledger (Course,            *)
(* CourseRegistration and the course controller) and the payment           *)
(* reconciler (Payment and the payment controller).                        *)
(*                                                                         *)
(* Every HTTP request is a process.  Each `await` of a handler is a point  *)
(* where other requests may run, so a handler is cut into one action per   *)
(* database round trip.  A mongoose document loaded by a request is a      *)
(* private copy (field doc of the request); save() writes back only the    *)
(* paths whose value differs from the loaded one.                          *)
(***************************************************************************)
EXTENDS Integers, Sequences, FiniteSets, TLC

\* ---- bounds ----
MaxReqs == 4          \* course-registration requests issued in one behaviour
MaxRegId == 2         \* registration ids an admin request may name (1..MaxRegId)
MaxConcurrent == 2    \* course-registration requests in flight at the same time
MaxPayReqs == 3       \* payment requests (initialize, verify, webhook) in one behaviour
MaxPayConcurrent == 2 \* payment requests in flight at the same time
MaxClock == 1         \* last instant of the clock read by new Date()

\* ---- finite input domains ----
Students == {"s1", "s2"}
CourseIds == {"c1"}
Terms == {"First-2024/2025"}     \* (semester, academicYear) pairs
NoMax == 0                       \* maxStudents absent (undefined is falsy in isFull)
InitMaxStudents == {NoMax, 1}    \* capacities courses are created with

Refs == {"ref1", "ref2"}         \* gateway references
GatewayData == {"d1", "d2"}      \* gateway payloads (gateway_response, channel, ...)
TransactionStatuses == {"success", "failed", "abandoned"}
Events == {"charge.success", "charge.failed", "transfer.failed", "other"}
PAYSTACK_SECRET_KEY == "secret"
Keys == {PAYSTACK_SECRET_KEY, "forged"}

ReqIds == 1..MaxConcurrent        \* request slots; a finished slot is reused
RegIds == 1..MaxRegId
PayReqIds == 1..MaxPayConcurrent

VARIABLES
  courses,    \* Course collection: CourseIds -> document
  regs,       \* CourseRegistration collection: sequence of documents, _id = index
  reqs,       \* course-registration requests: ReqIds -> request record
  issued,     \* number of course-registration requests issued so far
  pays,       \* Payment collection: sequence of documents, _id = index
  preqs,      \* payment requests: PayReqIds -> request record
  pissued,    \* number of payment requests issued so far
  now         \* the clock read by new Date()

regVars == <<courses, regs, reqs, issued>>
payVars == <<pays, preqs, pissued, now>>
vars == <<courses, regs, reqs, issued, pays, preqs, pissued, now>>

\* ---- responses (res.status(...).json(...)) ----
NoResponse == [status |-> 0, kind |-> "none"]
Resp(code, kind) == [status |-> code, kind |-> kind]

NoDoc == [id |-> 0, student |-> "none", course |-> "none", term |-> "none",
          status |-> "none", prior |-> "none"]

\* dup and raced record how the request started: dup, a row with its tuple was
\* already stored; raced, another request on the same registration was in flight
IdleReq == [op |-> "idle", pc |-> "idle", doc |-> NoDoc, response |-> NoResponse,
            dup |-> FALSE, raced |-> FALSE]

\* ---- Course model ----
\* virtual isFull: this.maxStudents && this.currentEnrollment >= this.maxStudents
isFull(course) ==
  course.maxStudents # NoMax /\ course.currentEnrollment >= course.maxStudents

\* Course.findByIdAndUpdate(id, {$inc: {currentEnrollment: delta}}): atomic
\* on the stored document; no effect when no document has that id
IncEnrollment(cs, c, delta) ==
  IF c \in DOMAIN cs /\ cs[c].exists
    THEN [cs EXCEPT ![c].currentEnrollment = @ + delta]
    ELSE cs

\* ---- CourseRegistration model ----
\* CourseRegistration.findOne({student, course, semester, academicYear})
ExistsTuple(rs, s, c, t) ==
  \E i \in 1..Len(rs) : rs[i].student = s /\ rs[i].course = c /\ rs[i].term = t

NewReg(s, c, t) == [student |-> s, course |-> c, term |-> t, status |-> "pending"]

\* ---- Payment model ----
NoRef == "none"      \* paystackReference absent
NoTime == -1         \* paidAt absent
NoData == "none"     \* gatewayResponse / failureReason absent

NewPayment == [status |-> "pending", paystackReference |-> NoRef, paidAt |-> NoTime,
               gatewayResponse |-> NoData, failureReason |-> NoData]

\* signed (webhook only) records whether the header presented was made with
\* the shared secret over the text the handler hashes
IdlePayReq == [op |-> "idle", pc |-> "idle", id |-> 0, loaded |-> NewPayment,
               doc |-> NewPayment, response |-> NoResponse, signed |-> FALSE]

\* a look-up that falls back on the first stored Payment when none holds the
\* reference
FindByReferenceLoose(ps, ref) ==
  IF \E i \in 1..Len(ps) : ps[i].paystackReference = ref
    THEN CHOOSE i \in 1..Len(ps) : ps[i].paystackReference = ref
    ELSE IF Len(ps) > 0 THEN 1 ELSE 0

\* Payment.findOne({paystackReference: reference}): the unique index leaves at
\* most one match; 0 when there is none
FindByReference(ps, ref) ==
  IF \E i \in 1..Len(ps) : ps[i].paystackReference = ref
    THEN CHOOSE i \in 1..Len(ps) : ps[i].paystackReference = ref
    ELSE 0

\* a markSuccessful that records the payment time and the gateway's data and
\* leaves the status as loaded
markSuccessfulKeepingStatus(doc, data, time) ==
  [doc EXCEPT !.paidAt = time, !.gatewayResponse = data]

\* markSuccessful(paystackData) on the in-memory document
markSuccessful(doc, data, time) ==
  [doc EXCEPT !.status = "successful", !.paidAt = time, !.gatewayResponse = data]

\* markFailed(paystackData) on the in-memory document
markFailed(doc, data) ==
  [doc EXCEPT !.status = "failed", !.failureReason = data, !.gatewayResponse = data]

\* markAbandoned() on the in-memory document
markAbandoned(doc) == [doc EXCEPT !.status = "abandoned"]

PaymentFields == {"status", "paystackReference", "paidAt", "gatewayResponse",
                  "failureReason"}

\* save() of a loaded document: sets the modified paths on the stored document
\* and leaves the other paths as they are stored
SaveModified(stored, loaded, doc) ==
  [f \in PaymentFields |-> IF doc[f] # loaded[f] THEN doc[f] ELSE stored[f]]

\* crypto.createHmac('sha512', key).update(JSON.stringify(body)).digest('hex')
Hmac(key, body) == <<"hmac", key, body>>

\* the text of a webhook request: one JSON object {event, data: {reference,
\* ...}} written in a layout (the serializer's own compact layout or another)
RawBody(form, event, ref, data) == <<form, event, ref, data>>

\* req.body: the parsed object, which no longer holds the layout
JSONparse(raw) == [event |-> raw[2], reference |-> raw[3], data |-> raw[4]]

\* JSON.stringify(req.body): always the compact layout
JSONstringify(body) == <<"compact", body.event, body.reference, body.data>>

\* the header was made with the shared secret over the text the handler hashes
Authentic(raw, signature) ==
  /\ signature[1] = "hmac"
  /\ signature[2] = PAYSTACK_SECRET_KEY
  /\ signature[3] = JSONstringify(JSONparse(raw))

\* a course as createCourse stores it: currentEnrollment default 0
NewCourse(m) == [exists |-> TRUE, isActive |-> TRUE, maxStudents |-> m,
                 currentEnrollment |-> 0]

\* no registration, no payment, no request yet
InitEmpty ==
  /\ regs = <<>>
  /\ reqs = [r \in ReqIds |-> IdleReq]
  /\ issued = 0
  /\ pays = <<>>
  /\ preqs = [q \in PayReqIds |-> IdlePayReq]
  /\ pissued = 0
  /\ now = 0

Init ==
  /\ courses \in [CourseIds -> {NewCourse(m) : m \in InitMaxStudents}]
  /\ InitEmpty

\* the payment reconciler never reads a course
InitPay ==
  /\ courses = [c \in CourseIds |-> NewCourse(NoMax)]
  /\ InitEmpty

InFlight == {q \in ReqIds : reqs[q].pc \notin {"idle", "done"}}

\* a new request takes the first slot that holds no request in flight
CanStart(r) ==
  /\ issued < MaxReqs
  /\ r \notin InFlight
  /\ \A q \in 1..(r - 1) : q \in InFlight

Done(r, response) ==
  reqs' = [reqs EXCEPT ![r].pc = "done", ![r].response = response]

\* ---- registerForCourse ----
\* Course.findById and the three checks of the controller
registerForCourse(r, s, c, t) ==
  /\ CanStart(r)
  /\ LET d == [NoDoc EXCEPT !.student = s, !.course = c, !.term = t,
                            !.status = "pending", !.prior = "new"]
         started == [IdleReq EXCEPT !.op = "register", !.doc = d,
                       !.dup = ExistsTuple(regs, s, c, t),
                       !.raced = \E q \in InFlight : /\ reqs[q].op = "register"
                                                    /\ reqs[q].doc.student = s
                                                    /\ reqs[q].doc.course = c
                                                    /\ reqs[q].doc.term = t]
     IN IF ~courses[c].exists
          THEN reqs' = [reqs EXCEPT ![r] = [started EXCEPT !.pc = "done",
                          !.response = Resp(404, "CourseNotFound")]]
        ELSE IF ~courses[c].isActive
          THEN reqs' = [reqs EXCEPT ![r] = [started EXCEPT !.pc = "done",
                          !.response = Resp(400, "CourseInactive")]]
        ELSE IF isFull(courses[c])
          THEN reqs' = [reqs EXCEPT ![r] = [started EXCEPT !.pc = "done",
                          !.response = Resp(400, "CourseFull")]]
        ELSE reqs' = [reqs EXCEPT ![r] = [started EXCEPT !.pc = "preSaveFindOne"]]
  /\ issued' = issued + 1
  /\ UNCHANGED <<courses, regs, payVars>>

\* pre('save'), isNew: findOne on the tuple; the error message contains
\* 'already registered', which the controller answers with 400
preSaveFindExisting(r) ==
  /\ reqs[r].op = "register" /\ reqs[r].pc = "preSaveFindOne"
  /\ LET d == reqs[r].doc
     IN IF ExistsTuple(regs, d.student, d.course, d.term)
          THEN Done(r, Resp(400, "DuplicateRegistration"))
          ELSE reqs' = [reqs EXCEPT ![r].pc = "preSaveFindCourse"]
  /\ UNCHANGED <<courses, regs, issued, payVars>>

\* pre('save'), isNew: Course.findById and isFull; Error('Course is full')
\* does not contain 'already registered', so the controller answers 500
preSaveCheckFull(r) ==
  /\ reqs[r].op = "register" /\ reqs[r].pc = "preSaveFindCourse"
  /\ LET c == reqs[r].doc.course
     IN IF courses[c].exists /\ isFull(courses[c])
          THEN Done(r, Resp(500, "ServerError"))
          ELSE reqs' = [reqs EXCEPT ![r].pc = "insert"]
  /\ UNCHANGED <<courses, regs, issued, payVars>>

\* the insert of save() on a collection whose unique compound index is missing
insertRegistrationUnindexed(r) ==
  /\ reqs[r].op = "register" /\ reqs[r].pc = "insert"
  /\ LET d == reqs[r].doc
     IN /\ regs' = Append(regs, NewReg(d.student, d.course, d.term))
        /\ reqs' = [reqs EXCEPT ![r].pc = "postSave",
                                ![r].doc.id = Len(regs) + 1]
  /\ UNCHANGED <<courses, issued, payVars>>

\* the insert of save(): the unique compound index refuses a second row
\* with the tuple (E11000), which the controller answers with 500
insertRegistration(r) ==
  /\ reqs[r].op = "register" /\ reqs[r].pc = "insert"
  /\ LET d == reqs[r].doc
     IN IF ExistsTuple(regs, d.student, d.course, d.term)
          THEN /\ Done(r, Resp(500, "ServerError"))
               /\ UNCHANGED regs
          ELSE /\ regs' = Append(regs, NewReg(d.student, d.course, d.term))
               /\ reqs' = [reqs EXCEPT ![r].pc = "postSave",
                                       ![r].doc.id = Len(regs) + 1]
  /\ UNCHANGED <<courses, issued, payVars>>

\* ---- approveRegistration / rejectRegistration / drop: load ----
\* CourseRegistration.findById(req.params.id)
FindRegistration(r, op, id) ==
  /\ CanStart(r)
  /\ LET started == [IdleReq EXCEPT !.op = op,
                       !.raced = \E q \in InFlight :
                                   /\ reqs[q].op \in {"approve", "reject", "drop"}
                                   /\ reqs[q].doc.id = id]
     IN IF id > Len(regs)
          THEN reqs' = [reqs EXCEPT ![r] = [started EXCEPT !.pc = "done",
                          !.response = Resp(404, "RegistrationNotFound")]]
          ELSE reqs' = [reqs EXCEPT ![r] = [started EXCEPT !.pc = "save",
                          !.doc = [id |-> id, student |-> regs[id].student,
                                   course |-> regs[id].course, term |-> regs[id].term,
                                   status |-> regs[id].status,
                                   prior |-> regs[id].status]]]
  /\ issued' = issued + 1
  /\ UNCHANGED <<courses, regs, payVars>>

approveRegistration(r, id) == FindRegistration(r, "approve", id)
rejectRegistration(r, id) == FindRegistration(r, "reject", id)
\* no controller calls drop(); the caller is a request that loaded the document
dropRegistration(r, id) == FindRegistration(r, "drop", id)

\* this.status = newStatus; this.save(): the update sets status only when
\* the path is modified, i.e. differs from the loaded value
SaveStatus(r, newStatus) ==
  /\ reqs[r].pc = "save"
  /\ LET d == reqs[r].doc
     IN /\ regs' = IF d.prior # newStatus
                     THEN [regs EXCEPT ![d.id].status = newStatus]
                     ELSE regs
        /\ reqs' = [reqs EXCEPT ![r].pc = "postSave", ![r].doc.status = newStatus]
  /\ UNCHANGED <<courses, issued, payVars>>

approve(r) == reqs[r].op = "approve" /\ SaveStatus(r, "approved")
reject(r) == reqs[r].op = "reject" /\ SaveStatus(r, "rejected")
drop(r) == reqs[r].op = "drop" /\ SaveStatus(r, "dropped")

\* response of the handler once save() and its hooks resolved
SuccessResponse(op) ==
  IF op = "register" THEN Resp(201, "Created") ELSE Resp(200, "OK")

\* post('save') that also releases a seat whenever the saved status is not
\* approved, without looking at the status the registration had before
postSaveReleasing(r) ==
  /\ reqs[r].pc = "postSave"
  /\ courses' = IncEnrollment(courses, reqs[r].doc.course,
                              IF reqs[r].doc.status = "approved" THEN 1 ELSE -1)
  /\ reqs' = [reqs EXCEPT ![r].pc = "done",
                          ![r].response = SuccessResponse(reqs[r].op),
                          ![r].doc = IF reqs[r].op = "register" THEN @
                                     ELSE [NoDoc EXCEPT !.id = reqs[r].doc.id,
                                                        !.prior = reqs[r].doc.prior]]
  /\ UNCHANGED <<regs, issued, payVars>>

\* post('save'): increments the course's counter when the saved document's
\* status is approved, whatever it was before; then the handler responds
postSave(r) ==
  /\ reqs[r].pc = "postSave"
  /\ courses' = IF reqs[r].doc.status = "approved"
                  THEN IncEnrollment(courses, reqs[r].doc.course, 1)
                  ELSE courses
  /\ reqs' = [reqs EXCEPT ![r].pc = "done",
                          ![r].response = SuccessResponse(reqs[r].op),
                          ![r].doc = IF reqs[r].op = "register" THEN @
                                     ELSE [NoDoc EXCEPT !.id = reqs[r].doc.id,
                                                        !.prior = reqs[r].doc.prior]]
  /\ UNCHANGED <<regs, issued, payVars>>

NextReg ==
  \E r \in ReqIds :
    \/ \E s \in Students, c \in CourseIds, t \in Terms : registerForCourse(r, s, c, t)
    \/ preSaveFindExisting(r)
    \/ preSaveCheckFull(r)
    \/ insertRegistration(r)
    \/ \E id \in RegIds : approveRegistration(r, id)
    \/ \E id \in RegIds : rejectRegistration(r, id)
    \/ \E id \in RegIds : dropRegistration(r, id)
    \/ approve(r)
    \/ reject(r)
    \/ drop(r)
    \/ postSave(r)

SpecReg == Init /\ [][NextReg]_vars

\* ---- course administration (createCourse, updateCourse) ----
\* the fields of a request body that the ledger reads; a body may carry any
\* subset of them (has), the others take the first value listed
CourseFields == {"isActive", "maxStudents", "currentEnrollment"}
BodyMaxStudents == {1, 0}
BodyEnrollments == {1, 0, -1}

Bodies ==
  {b \in [has : SUBSET CourseFields, isActive : BOOLEAN,
          maxStudents : BodyMaxStudents, currentEnrollment : BodyEnrollments] :
     /\ "isActive" \notin b.has => b.isActive
     /\ "maxStudents" \notin b.has => b.maxStudents = 1
     /\ "currentEnrollment" \notin b.has => b.currentEnrollment = 1}

\* no course document with this id
NoCourse == [exists |-> FALSE, isActive |-> FALSE, maxStudents |-> NoMax,
             currentEnrollment |-> 0]

\* validateCourseCreation / validateCourseUpdate: of the fields modelled, only
\* maxStudents has a rule (optional, isInt min 1); no rule names isActive or
\* currentEnrollment and nothing strips fields that have no rule
validateCourse(body) ==
  "maxStudents" \in body.has => body.maxStudents >= 1

\* the schema's validators: currentEnrollment min 0, maxStudents min 1
schemaValid(body) ==
  /\ "currentEnrollment" \in body.has => body.currentEnrollment >= 0
  /\ "maxStudents" \in body.has => body.maxStudents >= 1

\* the paths of req.body written over a course document
ApplyBody(course, body) ==
  [exists |-> TRUE,
   isActive |-> IF "isActive" \in body.has THEN body.isActive ELSE course.isActive,
   maxStudents |-> IF "maxStudents" \in body.has THEN body.maxStudents
                   ELSE course.maxStudents,
   currentEnrollment |-> IF "currentEnrollment" \in body.has
                           THEN body.currentEnrollment
                           ELSE course.currentEnrollment]

\* the answer of a course administration request, which completes in one step
AdminDone(r, op, c, response) ==
  reqs' = [reqs EXCEPT ![r] = [IdleReq EXCEPT !.op = op, !.pc = "done",
                                 !.doc = [NoDoc EXCEPT !.course = c],
                                 !.response = response]]

\* createCourse: validationResult, then new Course(req.body).save() under a
\* fresh id; a schema validation error ends in the catch block (500)
createCourse(r, c, body) ==
  /\ CanStart(r)
  /\ ~courses[c].exists
  /\ IF ~validateCourse(body)
       THEN AdminDone(r, "createCourse", c, Resp(400, "ValidationError")) /\ UNCHANGED courses
     ELSE IF ~schemaValid(body)
       THEN AdminDone(r, "createCourse", c, Resp(500, "ServerError")) /\ UNCHANGED courses
     ELSE /\ courses' = [courses EXCEPT ![c] = ApplyBody(NewCourse(NoMax), body)]
          /\ AdminDone(r, "createCourse", c, Resp(201, "Created"))
  /\ issued' = issued + 1
  /\ UNCHANGED <<regs, payVars>>

\* updateCourse: validationResult, then Course.findByIdAndUpdate(id, req.body,
\* {new: true, runValidators: true}); null answers 404
updateCourse(r, c, body) ==
  /\ CanStart(r)
  /\ IF ~validateCourse(body)
       THEN AdminDone(r, "updateCourse", c, Resp(400, "ValidationError")) /\ UNCHANGED courses
     ELSE IF ~schemaValid(body)
       THEN AdminDone(r, "updateCourse", c, Resp(500, "ServerError")) /\ UNCHANGED courses
     ELSE IF ~courses[c].exists
       THEN AdminDone(r, "updateCourse", c, Resp(404, "CourseNotFound")) /\ UNCHANGED courses
     ELSE /\ courses' = [courses EXCEPT ![c] = ApplyBody(courses[c], body)]
          /\ AdminDone(r, "updateCourse", c, Resp(200, "OK"))
  /\ issued' = issued + 1
  /\ UNCHANGED <<regs, payVars>>

\* no course has been created yet
InitCourse ==
  /\ courses = [c \in CourseIds |-> NoCourse]
  /\ InitEmpty

NextCourse ==
  \/ \E r \in ReqIds, c \in CourseIds, body \in Bodies : createCourse(r, c, body)
  \/ \E r \in ReqIds, c \in CourseIds, body \in Bodies : updateCourse(r, c, body)
  \/ NextReg

SpecCourse == InitCourse /\ [][NextCourse]_vars

\* ---- authentication and role gates of the registration routes ----
\* the users collection: role and isEmailVerified of each stored user
UserDb ==
  [s1 |-> [role |-> "student", isEmailVerified |-> TRUE],
   s2 |-> [role |-> "student", isEmailVerified |-> FALSE],
   a1 |-> [role |-> "admin", isEmailVerified |-> FALSE]]

Users == DOMAIN UserDb

\* what the Authorization header may carry: nothing, a token jwt.verify
\* rejects (malformed or expired), or a token that verifies and names a user
\* id, stored or not
NoToken == "noToken"
RejectedTokens == {"malformedToken", "expiredToken"}
Credentials == {NoToken} \cup RejectedTokens \cup Users \cup {"gone"}

\* authenticateToken: the 401 it answers, or NoResponse when it calls next()
\* with req.user set to the stored user
authenticateToken(cred) ==
  IF cred = NoToken THEN Resp(401, "NoToken")
  ELSE IF cred = "expiredToken" THEN Resp(401, "TokenExpired")
  ELSE IF cred = "malformedToken" THEN Resp(401, "InvalidToken")
  ELSE IF cred \notin Users THEN Resp(401, "UserNotFound")
  ELSE IF ~UserDb[cred].isEmailVerified /\ UserDb[cred].role = "student"
    THEN Resp(401, "EmailNotVerified")
  ELSE NoResponse

\* a role gate that lets every authenticated user through
requireAdminAnyUser(user) == NoResponse

\* requireAdmin / requireStudent on the req.user that authenticateToken set
requireAdmin(user) ==
  IF UserDb[user].role # "admin" THEN Resp(403, "AccessDenied") ELSE NoResponse

requireStudent(user) ==
  IF UserDb[user].role # "student" THEN Resp(403, "AccessDenied") ELSE NoResponse

\* a middleware answered: the handler does not run
Denied(r, op, response) ==
  /\ CanStart(r)
  /\ reqs' = [reqs EXCEPT ![r] = [IdleReq EXCEPT !.op = op, !.pc = "done",
                                    !.response = response]]
  /\ issued' = issued + 1
  /\ UNCHANGED <<courses, regs, payVars>>

\* router.post('/register', authenticateToken, requireStudent, ...,
\* registerForCourse): the student is req.user._id
postRegister(r, cred, c, t) ==
  IF authenticateToken(cred) # NoResponse
    THEN Denied(r, "register", authenticateToken(cred))
  ELSE IF requireStudent(cred) # NoResponse
    THEN Denied(r, "register", requireStudent(cred))
  ELSE registerForCourse(r, cred, c, t)

\* router.put('/registrations/:id/approve', authenticateToken, requireAdmin,
\* ..., approveRegistration)
putApprove(r, cred, id) ==
  IF authenticateToken(cred) # NoResponse
    THEN Denied(r, "approve", authenticateToken(cred))
  ELSE IF requireAdmin(cred) # NoResponse
    THEN Denied(r, "approve", requireAdmin(cred))
  ELSE approveRegistration(r, id)

\* router.put('/registrations/:id/reject', authenticateToken, requireAdmin,
\* ..., rejectRegistration)
putReject(r, cred, id) ==
  IF authenticateToken(cred) # NoResponse
    THEN Denied(r, "reject", authenticateToken(cred))
  ELSE IF requireAdmin(cred) # NoResponse
    THEN Denied(r, "reject", requireAdmin(cred))
  ELSE rejectRegistration(r, id)

\* the registration routes as the router exposes them (drop has no route)
NextRoutes ==
  \E r \in ReqIds :
    \/ \E cred \in Credentials, c \in CourseIds, t \in Terms : postRegister(r, cred, c, t)
    \/ \E cred \in Credentials, id \in RegIds : putApprove(r, cred, id)
    \/ \E cred \in Credentials, id \in RegIds : putReject(r, cred, id)
    \/ preSaveFindExisting(r)
    \/ preSaveCheckFull(r)
    \/ insertRegistration(r)
    \/ approve(r)
    \/ reject(r)
    \/ postSave(r)

\* one course with a capacity of one seat, nothing else stored
InitRoutes ==
  /\ courses = [c \in CourseIds |-> NewCourse(1)]
  /\ InitEmpty

SpecRoutes == InitRoutes /\ [][NextRoutes]_vars

\* ---- dispatch of GET requests by the course router ----
\* the GET routes in the order router.get registers them: path pattern (a
\* sequence of segments, ":id" a parameter), role gate, handler
GetRoutes ==
  << [pattern |-> <<>>, gate |-> "any", handler |-> "getCourses"],
     [pattern |-> <<"stats">>, gate |-> "admin", handler |-> "getCourseStats"],
     [pattern |-> <<":id">>, gate |-> "any", handler |-> "getCourseById"],
     [pattern |-> <<"my-registrations">>, gate |-> "student",
      handler |-> "getMyRegistrations"],
     [pattern |-> <<"registrations">>, gate |-> "admin",
      handler |-> "getAllRegistrations"],
     [pattern |-> <<"registrations", "stats">>, gate |-> "admin",
      handler |-> "getRegistrationStats"] >>

\* the paths requested, relative to the router's mount point; "c9" is a
\* well-formed id that no course has
Paths ==
  {<<>>, <<"stats">>, <<"c1">>, <<"c9">>, <<"my-registrations">>,
   <<"registrations">>, <<"registrations", "stats">>, <<"registrations", "c1">>}

\* a string that casts to an ObjectId
IsObjectId(seg) == seg \in CourseIds \cup {"c9"}

\* the pattern matches the path segment by segment, a parameter matching any
\* segment
Matches(pattern, path) ==
  /\ Len(pattern) = Len(path)
  /\ \A i \in 1..Len(pattern) : pattern[i] = ":id" \/ pattern[i] = path[i]

\* the first route, in registration order, whose pattern matches; 0 if none
Dispatch(routes, path) ==
  IF \E i \in 1..Len(routes) : Matches(routes[i].pattern, path)
    THEN CHOOSE i \in 1..Len(routes) :
           /\ Matches(routes[i].pattern, path)
           /\ \A j \in 1..(i - 1) : ~Matches(routes[j].pattern, path)
    ELSE 0

\* the role gate of a route on the authenticated user
requireRole(gate, user) ==
  IF gate = "admin" THEN requireAdmin(user)
  ELSE IF gate = "student" THEN requireStudent(user)
  ELSE NoResponse

\* what the handler answers; getCourseById ignores the result of
\* validateObjectId, so Course.findById throws on a segment that is no
\* ObjectId and the catch block answers 500
HandlerResponse(handler, path) ==
  IF handler # "getCourseById" THEN Resp(200, "OK")
  ELSE IF ~IsObjectId(path[1]) THEN Resp(500, "ServerError")
  ELSE IF path[1] \notin CourseIds \/ ~courses[path[1]].exists
    THEN Resp(404, "CourseNotFound")
  ELSE Resp(200, "OK")

\* a GET request: the first matching route's middleware chain and handler;
\* no route matching is Express's 404
getRequest(r, path, cred) ==
  /\ CanStart(r)
  /\ LET i == Dispatch(GetRoutes, path)
         Answer(op, response) ==
           reqs' = [reqs EXCEPT ![r] = [IdleReq EXCEPT !.op = op, !.pc = "done",
                                          !.response = response]]
     IN IF i = 0 THEN Answer("none", Resp(404, "NoRoute"))
        ELSE IF authenticateToken(cred) # NoResponse
          THEN Answer(GetRoutes[i].handler, authenticateToken(cred))
        ELSE IF requireRole(GetRoutes[i].gate, cred) # NoResponse
          THEN Answer(GetRoutes[i].handler, requireRole(GetRoutes[i].gate, cred))
        ELSE Answer(GetRoutes[i].handler, HandlerResponse(GetRoutes[i].handler, path))
  /\ issued' = issued + 1
  /\ UNCHANGED <<courses, regs, payVars>>

NextDispatch ==
  \/ \E r \in ReqIds, path \in Paths, cred \in Credentials : getRequest(r, path, cred)
  \/ \E r \in ReqIds, c \in CourseIds, body \in Bodies : createCourse(r, c, body)

SpecDispatch == InitCourse /\ [][NextDispatch]_vars

\* ---- payment requests ----
PayInFlight == {q \in PayReqIds : preqs[q].pc \notin {"idle", "done"}}

\* a new request takes the first slot that holds no request in flight
CanStartPay(q) ==
  /\ pissued < MaxPayReqs
  /\ q \notin PayInFlight
  /\ \A x \in 1..(q - 1) : x \in PayInFlight

PayDone(q, op, response) ==
  preqs' = [preqs EXCEPT ![q] = [IdlePayReq EXCEPT !.op = op, !.pc = "done",
                                                    !.response = response]]

\* initializePayment: new Payment({... status: 'pending'}).save()
initializePayment(q) ==
  /\ CanStartPay(q)
  /\ pays' = Append(pays, NewPayment)
  /\ preqs' = [preqs EXCEPT ![q] = [IdlePayReq EXCEPT !.op = "initialize",
                  !.pc = "gateway", !.id = Len(pays) + 1]]
  /\ pissued' = pissued + 1
  /\ UNCHANGED <<regVars, now>>

\* the gateway's answer handled by a catch block that also marks the row failed
initializeGatewayResponseMarking(q, ok, ref) ==
  /\ preqs[q].op = "initialize" /\ preqs[q].pc = "gateway"
  /\ IF ok
       THEN /\ preqs' = [preqs EXCEPT ![q].pc = "saveReference",
                                      ![q].doc.paystackReference = ref]
            /\ UNCHANGED pays
       ELSE /\ PayDone(q, "initialize", Resp(500, "ServerError"))
            /\ pays' = [pays EXCEPT ![preqs[q].id].status = "failed"]
  /\ UNCHANGED <<regVars, pissued, now>>

\* the gateway's answer to transaction/initialize: an error or a non-success
\* status ends in the catch block (500); otherwise the reference is set on the
\* in-memory document and save() is issued
initializeGatewayResponse(q, ok, ref) ==
  /\ preqs[q].op = "initialize" /\ preqs[q].pc = "gateway"
  /\ IF ok
       THEN preqs' = [preqs EXCEPT ![q].pc = "saveReference",
                                   ![q].doc.paystackReference = ref]
       ELSE PayDone(q, "initialize", Resp(500, "ServerError"))
  /\ UNCHANGED <<regVars, pays, pissued, now>>

\* payment.save() of the reference on a collection whose unique index on
\* paystackReference is missing
saveReferenceUnindexed(q) ==
  /\ preqs[q].op = "initialize" /\ preqs[q].pc = "saveReference"
  /\ pays' = [pays EXCEPT ![preqs[q].id] =
                SaveModified(pays[preqs[q].id], preqs[q].loaded, preqs[q].doc)]
  /\ PayDone(q, "initialize", Resp(201, "Created"))
  /\ UNCHANGED <<regVars, pissued, now>>

\* payment.save() of the reference: the unique sparse index on
\* paystackReference refuses a reference another Payment holds (500); the
\* request's document keeps the reference it could not store
saveReference(q) ==
  /\ preqs[q].op = "initialize" /\ preqs[q].pc = "saveReference"
  /\ LET ref == preqs[q].doc.paystackReference
         id == preqs[q].id
     IN IF \E i \in 1..Len(pays) : i # id /\ pays[i].paystackReference = ref
          THEN /\ preqs' = [preqs EXCEPT ![q] =
                              [IdlePayReq EXCEPT !.op = "initialize", !.pc = "done",
                                 !.doc = preqs[q].doc,
                                 !.response = Resp(500, "ServerError")]]
               /\ UNCHANGED pays
          ELSE /\ pays' = [pays EXCEPT ![id] =
                            SaveModified(pays[id], preqs[q].loaded, preqs[q].doc)]
               /\ PayDone(q, "initialize", Resp(201, "Created"))
  /\ UNCHANGED <<regVars, pissued, now>>

\* verifyPayment up to the mark call: the gateway's verify answer, then
\* Payment.findOne; the mark method runs on the loaded document and issues save()
verifyPayment(q, ref, ok, status, data) ==
  /\ CanStartPay(q)
  /\ LET id == FindByReference(pays, ref)
     IN IF ~ok
          THEN PayDone(q, "verify", Resp(500, "ServerError"))
        ELSE IF id = 0
          THEN PayDone(q, "verify", Resp(404, "PaymentNotFound"))
        ELSE preqs' = [preqs EXCEPT ![q] = [IdlePayReq EXCEPT !.op = "verify",
                         !.pc = "save", !.id = id, !.loaded = pays[id],
                         !.doc = IF status = "success"
                                   THEN markSuccessful(pays[id], data, now)
                                 ELSE IF status = "failed"
                                   THEN markFailed(pays[id], data)
                                 ELSE markAbandoned(pays[id])]]
  /\ pissued' = pissued + 1
  /\ UNCHANGED <<regVars, pays, now>>

\* what handleWebhook does with a delivery: signature check, look-up by
\* data.reference, dispatch on the event
webhookHandler(q, raw, signature) ==
  LET body == JSONparse(raw)
      event == body.event
      data == body.data
      hash == Hmac(PAYSTACK_SECRET_KEY, JSONstringify(body))
      id == FindByReference(pays, body.reference)
      signed == Authentic(raw, signature)
      Answer(response) ==
        preqs' = [preqs EXCEPT ![q] = [IdlePayReq EXCEPT !.op = "webhook",
                    !.pc = "done", !.response = response, !.signed = signed]]
      Mark(doc) ==
        preqs' = [preqs EXCEPT ![q] = [IdlePayReq EXCEPT !.op = "webhook",
                    !.pc = "save", !.id = id, !.loaded = pays[id],
                    !.doc = doc, !.signed = signed]]
  IN IF signature # hash
       THEN Answer(Resp(400, "InvalidSignature"))
     ELSE IF id = 0
       THEN Answer(Resp(404, "PaymentNotFound"))
     ELSE IF event = "charge.success"
       THEN Mark(markSuccessful(pays[id], data, now))
     ELSE IF event \in {"charge.failed", "transfer.failed"}
       THEN Mark(markFailed(pays[id], data))
     ELSE Answer(Resp(200, "OK"))

\* handleWebhook without the comparison of the header with the hash
handleWebhookUnverified(q, raw, signature) ==
  /\ CanStartPay(q)
  /\ LET body == JSONparse(raw)
         event == body.event
         data == body.data
         id == FindByReference(pays, body.reference)
         signed == Authentic(raw, signature)
         Answer(response) ==
           preqs' = [preqs EXCEPT ![q] = [IdlePayReq EXCEPT !.op = "webhook",
                       !.pc = "done", !.response = response, !.signed = signed]]
         Mark(doc) ==
           preqs' = [preqs EXCEPT ![q] = [IdlePayReq EXCEPT !.op = "webhook",
                       !.pc = "save", !.id = id, !.loaded = pays[id],
                       !.doc = doc, !.signed = signed]]
     IN IF id = 0
          THEN Answer(Resp(404, "PaymentNotFound"))
        ELSE IF event = "charge.success"
          THEN Mark(markSuccessful(pays[id], data, now))
        ELSE IF event \in {"charge.failed", "transfer.failed"}
          THEN Mark(markFailed(pays[id], data))
        ELSE Answer(Resp(200, "OK"))
  /\ pissued' = pissued + 1
  /\ UNCHANGED <<regVars, pays, now>>

\* handleWebhook up to the mark call: signature check, Payment.findOne and the
\* switch on the event; an unhandled event is acknowledged without a save
handleWebhook(q, raw, signature) ==
  /\ CanStartPay(q)
  /\ webhookHandler(q, raw, signature)
  /\ pissued' = pissued + 1
  /\ UNCHANGED <<regVars, pays, now>>

\* the save() issued by markSuccessful / markFailed / markAbandoned reaches
\* the store; the handler then responds 200
savePayment(q) ==
  /\ preqs[q].op \in {"verify", "webhook"} /\ preqs[q].pc = "save"
  /\ pays' = [pays EXCEPT ![preqs[q].id] =
                SaveModified(pays[preqs[q].id], preqs[q].loaded, preqs[q].doc)]
  /\ PayDone(q, preqs[q].op, Resp(200, "OK"))
  /\ UNCHANGED <<regVars, pissued, now>>

\* time passes
Tick ==
  /\ now < MaxClock
  /\ now' = now + 1
  /\ UNCHANGED <<regVars, pays, preqs, pissued>>

\* the layouts a sender may write the body in
BodyForms == {"compact", "spaced"}

\* signature headers a sender may present: computed with the shared secret or
\* another key, over the text sent or over its re-serialization, or no header
Signatures(raw) ==
  {Hmac(k, t) : k \in Keys, t \in {raw, JSONstringify(JSONparse(raw))}}
    \cup {<<"absent">>}

\* the header the gateway sends with a body: made with the shared secret over
\* the text the handler hashes
GatewaySignature(raw) == Hmac(PAYSTACK_SECRET_KEY, JSONstringify(JSONparse(raw)))

NextPay ==
  \/ \E q \in PayReqIds :
       \/ initializePayment(q)
       \/ \E ok \in BOOLEAN, ref \in Refs : initializeGatewayResponse(q, ok, ref)
       \/ saveReference(q)
       \/ \E ref \in Refs, ok \in BOOLEAN, st \in TransactionStatuses, d \in GatewayData :
            verifyPayment(q, ref, ok, st, d)
       \/ \E form \in BodyForms, ev \in Events, ref \in Refs, d \in GatewayData :
            \E sig \in Signatures(RawBody(form, ev, ref, d)) :
              handleWebhook(q, RawBody(form, ev, ref, d), sig)
       \/ savePayment(q)
  \/ Tick

SpecPay == InitPay /\ [][NextPay]_vars

\* ---- reconciliation of a Payment that initialize has completed ----
\* one pending Payment holding the reference the gateway returned
InitInitialized ==
  /\ courses = [c \in CourseIds |-> NewCourse(NoMax)]
  /\ regs = <<>>
  /\ reqs = [r \in ReqIds |-> IdleReq]
  /\ issued = 0
  /\ pays = <<[NewPayment EXCEPT !.paystackReference = "ref1"]>>
  /\ preqs = [q \in PayReqIds |-> IdlePayReq]
  /\ pissued = 0
  /\ now = 0

NextReconcile ==
  \/ \E q \in PayReqIds :
       \/ \E ref \in Refs, ok \in BOOLEAN, st \in TransactionStatuses, d \in GatewayData :
            verifyPayment(q, ref, ok, st, d)
       \/ \E form \in BodyForms, ev \in Events, ref \in Refs, d \in GatewayData :
            handleWebhook(q, RawBody(form, ev, ref, d),
                          GatewaySignature(RawBody(form, ev, ref, d)))
       \/ savePayment(q)
  \/ Tick

SpecReconcile == InitInitialized /\ [][NextReconcile]_vars

\* ---- the gateway's delivery of charge.success ----
\* the references the gateway has accepted an initialization for: stored on a
\* Payment, or set on the document of an initialize request about to save it
AcceptedRefs ==
  ({pays[i].paystackReference : i \in 1..Len(pays)} \ {NoRef})
    \cup {preqs[q].doc.paystackReference :
            q \in {x \in PayInFlight : /\ preqs[x].op = "initialize"
                                       /\ preqs[x].pc = "saveReference"}}

\* the gateway's answer to transaction/initialize when it echoes the reference
\* of the request, `UMaT_${payment._id}`, which no other Payment has
initializeGatewayEcho(q, ok, ref) ==
  /\ ok => ref \notin AcceptedRefs
  /\ initializeGatewayResponse(q, ok, ref)

\* a delivery of ref is being handled
Delivering(ref) ==
  \E q \in PayInFlight :
    /\ preqs[q].op = "webhook"
    /\ pays[preqs[q].id].paystackReference = ref

\* the gateway sends charge.success for a reference it accepted, signed with
\* the shared secret, and sends it again after each answer
redeliverChargeSuccess(q, ref, data) ==
  /\ q \notin PayInFlight
  /\ \A x \in 1..(q - 1) : x \in PayInFlight
  /\ ref \in AcceptedRefs
  /\ ~Delivering(ref)
  /\ LET raw == RawBody("compact", "charge.success", ref, data)
     IN webhookHandler(q, raw, GatewaySignature(raw))
  /\ UNCHANGED <<regVars, pays, pissued, now>>

NextLive ==
  \/ \E q \in PayReqIds :
       \/ initializePayment(q)
       \/ \E ok \in BOOLEAN, ref \in Refs : initializeGatewayEcho(q, ok, ref)
       \/ saveReference(q)
       \/ \E ref \in Refs, st \in {"success", "failed"} :
            verifyPayment(q, ref, TRUE, st, "d1")
       \/ \E ref \in Refs : redeliverChargeSuccess(q, ref, "d1")
       \/ savePayment(q)

\* every request runs to completion (each awaited call returns), and the
\* gateway keeps delivering
FairLive ==
  /\ \A q \in PayReqIds :
       /\ WF_vars(\E ok \in BOOLEAN, ref \in Refs : initializeGatewayEcho(q, ok, ref))
       /\ WF_vars(saveReference(q))
       /\ WF_vars(savePayment(q))
  /\ \A ref \in Refs :
       WF_vars(\E q \in PayReqIds : redeliverChargeSuccess(q, ref, "d1"))

SpecLive == InitPay /\ [][NextLive]_vars /\ FairLive

\* ===========================================================================
\* Properties of the registration ledger (checked under SpecReg)
\* ===========================================================================

ApprovedCount(c) ==
  Cardinality({i \in 1..Len(regs) : regs[i].course = c /\ regs[i].status = "approved"})

Quiescent == InFlight = {}

\* the step taken is request r leaving program point pc
Leaves(r, op, pc) ==
  reqs[r].op = op /\ reqs[r].pc = pc /\ reqs'[r].pc # pc

WithinCapacity(cs) ==
  \A c \in CourseIds :
    cs[c].maxStudents # NoMax => cs[c].currentEnrollment <= cs[c].maxStudents

\* the requests issued so far are register calls that stored a registration
\* and approve calls that loaded a pending registration (all still in a slot)
OnlyRegistersAndApprovesOnPending ==
  issued = Len(regs) + Cardinality({r \in ReqIds : /\ reqs[r].op = "approve"
                                                    /\ reqs[r].doc.prior = "pending"})

\* C1: when the only approve calls are calls on pending registrations, in any
\* interleaving, a course that has maxStudents set never has currentEnrollment
\* above maxStudents.
C1_EnrollmentWithinCapacity ==
  OnlyRegistersAndApprovesOnPending => WithinCapacity(courses)

\* C2: once the issued register, approve, reject and drop requests have all
\* completed, each course's currentEnrollment equals the number of its
\* registrations with status approved.
C2_EnrollmentEqualsApprovedCount ==
  Quiescent => \A c \in CourseIds : courses[c].currentEnrollment = ApprovedCount(c)

SameTuple(a, b) ==
  /\ reqs[a].doc.student = reqs[b].doc.student
  /\ reqs[a].doc.course = reqs[b].doc.course
  /\ reqs[a].doc.term = reqs[b].doc.term

FinishedRegister(r) == reqs[r].op = "register" /\ reqs[r].pc = "done"

\* C6: a register call for a tuple that is already stored answers
\* DuplicateRegistration, whatever the status of the stored registration; of
\* two concurrent register calls for one tuple, when one creates the
\* registration the other answers DuplicateRegistration.
C6_DuplicateYieldsConflict ==
  /\ \A r \in ReqIds :
       (FinishedRegister(r) /\ reqs[r].dup) =>
         reqs[r].response.kind = "DuplicateRegistration"
  /\ \A a, b \in ReqIds :
       (/\ a # b /\ FinishedRegister(a) /\ FinishedRegister(b)
        /\ SameTuple(a, b) /\ reqs[b].raced
        /\ reqs[a].response.kind = "Created") =>
         reqs[b].response.kind = "DuplicateRegistration"

\* C7: the save of an approve on a stored pending registration whose course
\* is at capacity is refused: the request ends with CourseFull, the
\* registration stays pending and no course changes.
C7_ApproveAtCapacityFails ==
  [][\A r \in ReqIds :
       (/\ Leaves(r, "approve", "save")
        /\ regs[reqs[r].doc.id].status = "pending"
        /\ isFull(courses[reqs[r].doc.course])) =>
         /\ regs'[reqs[r].doc.id].status = "pending"
         /\ courses' = courses
         /\ reqs'[r].pc = "done"
         /\ reqs'[r].response.kind = "CourseFull"]_vars

\* C8: when an approve request that runs alone completes, the course's
\* currentEnrollment has grown by one if the registration it loaded was not
\* approved and by zero if it was already approved.
C8_ReapprovalNoDoubleIncrement ==
  [][\A r \in ReqIds :
       (Leaves(r, "approve", "postSave") /\ InFlight = {r} /\ ~reqs[r].raced) =>
         LET c == reqs[r].doc.course
         IN courses'[c].currentEnrollment =
              courses[c].currentEnrollment +
                (IF reqs[r].doc.prior = "approved" THEN 0 ELSE 1)]_vars

\* C9: reject stores status rejected, and when a reject request that runs
\* alone completes, the course's currentEnrollment has dropped by one if the
\* registration it loaded was approved and is unchanged if it was pending.
C9_RejectReleasesSeat ==
  [][\A r \in ReqIds :
       /\ Leaves(r, "reject", "save") => regs'[reqs[r].doc.id].status = "rejected"
       /\ (Leaves(r, "reject", "postSave") /\ InFlight = {r} /\ ~reqs[r].raced) =>
            LET c == reqs[r].doc.course
            IN courses'[c].currentEnrollment =
                 courses[c].currentEnrollment -
                   (IF reqs[r].doc.prior = "approved" THEN 1 ELSE 0)]_vars

\* C10: after an approve and a reject that ran concurrently on the same
\* registration (the only requests issued after the register call that created
\* it), the registration is counted in currentEnrollment if and only if its
\* status is approved.
C10_ApproveRejectRaceConsistent ==
  \A a, b \in ReqIds :
    (/\ Quiescent
     /\ reqs[a].op = "approve" /\ reqs[a].response.kind = "OK"
     /\ reqs[b].op = "reject" /\ reqs[b].response.kind = "OK"
     /\ reqs[a].doc.id = reqs[b].doc.id
     /\ reqs[a].raced \/ reqs[b].raced
     /\ Len(regs) = 1 /\ issued = 3) =>
      LET i == reqs[a].doc.id
      IN courses[regs[i].course].currentEnrollment =
           (IF regs[i].status = "approved" THEN 1 ELSE 0)

\* C13: drop stores status dropped on a pending or approved registration, and
\* when a drop request that runs alone completes, the course's
\* currentEnrollment has dropped by exactly one if the registration it loaded
\* was approved and is unchanged if it was pending.
C13_DropReleasesSeat ==
  [][\A r \in ReqIds :
       /\ (Leaves(r, "drop", "save") /\ reqs[r].doc.prior \in {"pending", "approved"}) =>
            regs'[reqs[r].doc.id].status = "dropped"
       /\ (/\ Leaves(r, "drop", "postSave") /\ InFlight = {r} /\ ~reqs[r].raced
           /\ reqs[r].doc.prior \in {"pending", "approved"}) =>
            LET c == reqs[r].doc.course
            IN courses'[c].currentEnrollment =
                 courses[c].currentEnrollment -
                   (IF reqs[r].doc.prior = "approved" THEN 1 ELSE 0)]_vars

\* C14: in every reachable state, whatever the sequence or interleaving of
\* register, approve, reject and drop, no course has a negative
\* currentEnrollment.
C14_EnrollmentNonNegative ==
  \A c \in CourseIds : courses[c].currentEnrollment >= 0

\* a reject or a drop has completed on a registration of a course whose
\* currentEnrollment is 0
C14_Witness ==
  \E r \in ReqIds :
    /\ reqs[r].op \in {"reject", "drop"} /\ reqs[r].pc = "done"
    /\ reqs[r].response.kind = "OK"
    /\ courses[regs[reqs[r].doc.id].course].currentEnrollment = 0

\* C15: in every reachable state, also after concurrent register calls, no
\* two stored registrations have the same (student, course, semester,
\* academicYear).
C15_OneRegistrationPerTuple ==
  \A i, j \in 1..Len(regs) :
    (/\ regs[i].student = regs[j].student
     /\ regs[i].course = regs[j].course
     /\ regs[i].term = regs[j].term) => i = j

\* of two register calls that ran concurrently for one tuple and both passed
\* the duplicate look-up, one stored the registration and the other's insert
\* was refused
C15_Witness ==
  \E a, b \in ReqIds :
    /\ a # b /\ FinishedRegister(a) /\ FinishedRegister(b) /\ SameTuple(a, b)
    /\ reqs[b].raced /\ ~reqs[b].dup
    /\ reqs[a].response.kind = "Created"
    /\ reqs[b].response.kind = "ServerError"
    /\ courses[reqs[b].doc.course].maxStudents = NoMax

RegisterFailures ==
  {"CourseNotFound", "CourseInactive", "CourseFull", "DuplicateRegistration"}

\* the precondition of register that the failure kind names is false
FailedPrecondition(kind, d) ==
  CASE kind = "CourseNotFound" -> ~courses[d.course].exists
    [] kind = "CourseInactive" -> ~courses[d.course].isActive
    [] kind = "CourseFull" -> isFull(courses[d.course])
    [] kind = "DuplicateRegistration" -> ExistsTuple(regs, d.student, d.course, d.term)
    [] OTHER -> FALSE

\* the step taken is the end of register request r
RegisterEnds(r) ==
  reqs'[r].op = "register" /\ reqs'[r].pc = "done" /\ reqs'[r] # reqs[r]

\* C16: a register request stores a registration only when, at that moment,
\* the course exists, is active and is not full and no registration has the
\* tuple; a register request that stores none ends with CourseNotFound,
\* CourseInactive, CourseFull or DuplicateRegistration, the one whose
\* precondition is false, and changes no registration and no counter.
C16_RegisterPreconditions ==
  [][\A r \in ReqIds :
       /\ (reqs[r].op = "register" /\ Len(regs') > Len(regs) /\ reqs'[r] # reqs[r]) =>
            LET d == reqs[r].doc
            IN /\ courses[d.course].exists /\ courses[d.course].isActive
               /\ ~isFull(courses[d.course])
               /\ ~ExistsTuple(regs, d.student, d.course, d.term)
       /\ (RegisterEnds(r) /\ reqs'[r].response.kind # "Created") =>
            /\ reqs'[r].response.kind \in RegisterFailures
            /\ FailedPrecondition(reqs'[r].response.kind, reqs'[r].doc)
            /\ regs' = regs /\ courses' = courses]_vars

\* the step taken is a step of register request r
RegisterStep(r) == reqs'[r].op = "register" /\ reqs'[r] # reqs[r]

\* C17: the steps of a register request leave every course's
\* currentEnrollment and every stored registration unchanged, except that its
\* insert adds exactly one registration, with the request's tuple and status
\* pending; a register request answers success only after that insert.
C17_RegisterFrame ==
  [][\A r \in ReqIds :
       RegisterStep(r) =>
         /\ courses' = courses
         /\ IF reqs[r].pc = "insert" /\ reqs'[r].pc = "postSave"
              THEN LET d == reqs[r].doc
                   IN regs' = Append(regs, [student |-> d.student, course |-> d.course,
                                            term |-> d.term, status |-> "pending"])
              ELSE regs' = regs
         /\ reqs'[r].response.kind = "Created" => reqs[r].pc = "postSave"]_vars

\* a register request has succeeded as the second registration of a course
\* that already counts an approved one
C17_Witness ==
  \E r \in ReqIds :
    /\ FinishedRegister(r) /\ reqs[r].response.kind = "Created"
    /\ reqs[r].doc.id = 2
    /\ courses[reqs[r].doc.course].currentEnrollment = 1

AllowedTransitions ==
  {<<"pending", "approved">>, <<"pending", "rejected">>, <<"approved", "rejected">>,
   <<"pending", "dropped">>, <<"approved", "dropped">>}

\* C23: a stored registration's status only ever changes from pending to
\* approved, rejected or dropped, or from approved to rejected or dropped;
\* the save of an approve, reject or drop on a registration that is rejected
\* or dropped is refused with InvalidState and changes no registration and no
\* course.
C23_StatusTransitions ==
  [][/\ \A i \in 1..Len(regs) :
          regs'[i].status # regs[i].status =>
            <<regs[i].status, regs'[i].status>> \in AllowedTransitions
     /\ \A r \in ReqIds, op \in {"approve", "reject", "drop"} :
          (/\ Leaves(r, op, "save")
           /\ regs[reqs[r].doc.id].status \in {"rejected", "dropped"}) =>
            /\ regs' = regs /\ courses' = courses
            /\ reqs'[r].pc = "done"
            /\ reqs'[r].response.kind = "InvalidState"]_vars

\* C24: an approve or reject request that is answered with an error has
\* changed no registration and no course, and every step changes a course's
\* currentEnrollment by exactly the change in the number of its approved
\* registrations, so that the status write is never visible without the
\* enrollment update.
C24_NoPartialMutation ==
  [][/\ \A r \in ReqIds :
          (/\ CanStart(r) /\ issued' = issued + 1
           /\ reqs'[r].op \in {"approve", "reject"}
           /\ reqs'[r].pc = "done" /\ reqs'[r].response.status >= 400) =>
            regs' = regs /\ courses' = courses
     /\ \A c \in CourseIds :
          courses'[c].currentEnrollment - courses[c].currentEnrollment =
            ApprovedCount(c)' - ApprovedCount(c)]_vars

\* ===========================================================================
\* Properties of course administration (checked under SpecCourse)
\* ===========================================================================

\* the step taken is a createCourse or updateCourse request, answered in slot r
CourseAdminStep(r) ==
  /\ CanStart(r) /\ issued' = issued + 1
  /\ reqs'[r].op \in {"createCourse", "updateCourse"}

\* C18: a createCourse or updateCourse request never sets or changes
\* currentEnrollment: a created course has the default 0 and an updated course
\* keeps the value it had.
C18_AdminNeverWritesEnrollment ==
  [][\A r \in ReqIds :
       CourseAdminStep(r) =>
         \A c \in CourseIds :
           courses'[c].currentEnrollment = courses[c].currentEnrollment]_vars

\* ===========================================================================
\* Properties of the registration routes (checked under SpecRoutes)
\* ===========================================================================

\* the credential is a token of a stored user whose role the operation asks
\* for, a student's e-mail being verified
Permitted(cred, op) ==
  /\ cred \in Users
  /\ op = "register" =>
       UserDb[cred].role = "student" /\ UserDb[cred].isEmailVerified
  /\ op \in {"approve", "reject"} => UserDb[cred].role = "admin"

\* C26: a register request whose user is not an authenticated, verified
\* student, and an approve or reject request whose user is not an
\* authenticated admin, is answered 401 or 403 without its handler running:
\* it changes no registration and no course.
C26_RoleGating ==
  [][\A r \in ReqIds :
       (CanStart(r) /\ issued' = issued + 1) =>
         \/ /\ reqs'[r].pc = "done"
            /\ reqs'[r].response.status \in {401, 403}
            /\ regs' = regs /\ courses' = courses
         \/ \A cred \in Credentials :
              /\ ~Permitted(cred, "register") =>
                   \A c \in CourseIds, t \in Terms : ~postRegister(r, cred, c, t)
              /\ ~Permitted(cred, "approve") =>
                   \A id \in RegIds : ~putApprove(r, cred, id)
              /\ ~Permitted(cred, "reject") =>
                   \A id \in RegIds : ~putReject(r, cred, id)]_vars

\* an approve request was answered 403 and the pending registration stored
\* is still pending
C26_Witness ==
  /\ \E r \in ReqIds :
       /\ reqs[r].op = "approve" /\ reqs[r].pc = "done"
       /\ reqs[r].response.kind = "AccessDenied"
  /\ Len(regs) = 1 /\ regs[1].status = "pending"

\* C27: a GET of /my-registrations by an authenticated, verified student is
\* handled by getMyRegistrations and a GET of /registrations by an
\* authenticated admin by getAllRegistrations, no route registered earlier
\* taking the request.
C27_RouteDispatch ==
  [][\A r \in ReqIds, cred \in Users :
       /\ (Permitted(cred, "register") /\ getRequest(r, <<"my-registrations">>, cred)) =>
            reqs'[r].op = "getMyRegistrations"
       /\ (Permitted(cred, "approve") /\ getRequest(r, <<"registrations">>, cred)) =>
            reqs'[r].op = "getAllRegistrations"]_vars

\* ===========================================================================
\* Properties of the payment reconciler (checked under SpecPay)
\* ===========================================================================

TerminalStatuses == {"successful", "failed", "abandoned"}

\* C3: a Payment whose status is successful keeps status successful in every
\* step, whatever verify result or webhook event is applied to it.
C3_StickySuccess ==
  [][\A i \in 1..Len(pays) :
       pays[i].status = "successful" => pays'[i].status = "successful"]_vars

\* C4: a Payment whose status is successful, failed or abandoned has the same
\* status after every step.
C4_NoTransitionLeavesTerminal ==
  [][\A i \in 1..Len(pays) :
       pays[i].status \in TerminalStatuses => pays'[i].status = pays[i].status]_vars

\* the save of request q applies the outcome the stored Payment already holds:
\* same terminal status, same gateway payload
AppliesStoredOutcome(q) ==
  /\ preqs[q].op \in {"verify", "webhook"}
  /\ preqs[q].pc = "save" /\ preqs'[q].pc = "done"
  /\ LET stored == pays[preqs[q].id]
         doc == preqs[q].doc
     IN /\ stored.status \in TerminalStatuses
        /\ doc.status = stored.status
        /\ doc.gatewayResponse = stored.gatewayResponse
        /\ doc.failureReason = stored.failureReason

\* C5: applying to a Payment the terminal outcome it already holds leaves
\* every field of every Payment as it was, and the call answers success.
C5_ApplyOutcomeIdempotent ==
  [][\A q \in PayReqIds :
       AppliesStoredOutcome(q) =>
         pays' = pays /\ preqs'[q].response.kind = "OK"]_vars

\* the save of request q lands second: q loaded the Payment while it was
\* pending, and a request of the other kind (verify against webhook) has
\* already completed and the stored Payment is no longer pending
SavesSecond(q) ==
  /\ preqs[q].op \in {"verify", "webhook"}
  /\ preqs[q].pc = "save" /\ preqs'[q].pc = "done"
  /\ preqs[q].loaded.status = "pending"
  /\ pays[preqs[q].id].status \in TerminalStatuses
  /\ \E p \in PayReqIds \ {q} :
       /\ preqs[p].op \in {"verify", "webhook"} \ {preqs[q].op}
       /\ preqs[p].pc = "done" /\ preqs[p].response.kind = "OK"

\* C11: of a verify call and a webhook delivery that run concurrently on the
\* same pending Payment, the one whose save lands second performs no write, so
\* the Payment keeps the outcome that was applied first.
C11_SecondArrivalWritesNothing ==
  [][\A q \in PayReqIds : SavesSecond(q) => pays' = pays]_vars

\* the step taken is the arrival of a webhook delivery in slot q
WebhookArrives(q) ==
  CanStartPay(q) /\ pissued' = pissued + 1 /\ preqs'[q].op = "webhook"

\* C12: a webhook delivery whose signature header is absent or is not the
\* HMAC, under the shared secret, of the body as the handler hashes it is
\* answered 400 InvalidSignature at once and leaves every Payment unchanged.
C12_WebhookFailsClosed ==
  [][\A q \in PayReqIds :
       (WebhookArrives(q) /\ ~preqs'[q].signed) =>
         /\ pays' = pays
         /\ preqs'[q].pc = "done"
         /\ preqs'[q].response = Resp(400, "InvalidSignature")]_vars

\* a delivery with a bad signature was rejected while a pending Payment that
\* holds a gateway reference was stored
C12_Witness ==
  /\ \E q \in PayReqIds :
       /\ preqs[q].op = "webhook" /\ preqs[q].pc = "done" /\ ~preqs[q].signed
       /\ preqs[q].response.kind = "InvalidSignature"
  /\ \E i \in 1..Len(pays) :
       pays[i].paystackReference # NoRef /\ pays[i].status = "pending"

\* the step taken is initialize request q ending on the gateway's answer
InitializeFailsAtGateway(q) ==
  /\ preqs[q].op = "initialize" /\ preqs[q].pc = "gateway"
  /\ preqs'[q].pc = "done"

\* Payment i holds no gateway reference and no initialize request is working
\* on it
Orphaned(i) ==
  /\ pays[i].paystackReference = NoRef
  /\ ~\E q \in PayInFlight : preqs[q].op = "initialize" /\ preqs[q].id = i

\* C19: when the gateway's initialization call errors or answers non-success,
\* initialize answers with an error and changes no Payment, the row it
\* created being pending without gateway reference; and that row stays as it
\* is in every later step.
C19_GatewayInitFailureLeavesPending ==
  [][/\ \A q \in PayReqIds :
          InitializeFailsAtGateway(q) =>
            /\ preqs'[q].response.status >= 400
            /\ pays' = pays
            /\ pays[preqs[q].id].status = "pending"
            /\ pays[preqs[q].id].paystackReference = NoRef
     /\ \A i \in 1..Len(pays) : Orphaned(i) => pays'[i] = pays[i]]_vars

\* an initialize request has ended in an error after another Payment got its
\* gateway reference, and the row it created is stored as created
C19_Witness ==
  /\ \E q \in PayReqIds :
       /\ preqs[q].op = "initialize" /\ preqs[q].pc = "done"
       /\ preqs[q].response.kind = "ServerError"
  /\ Len(pays) = 2
  /\ pays[1].paystackReference # NoRef
  /\ pays[2] = NewPayment

\* C20: a verify call for a reference that no stored Payment holds, also one
\* made between initialize's creation of the row and its save of the
\* reference, is answered PaymentNotFound and changes no Payment.
C20_VerifyUnknownReference ==
  [][\A q \in PayReqIds, ref \in Refs, ok \in BOOLEAN,
        st \in TransactionStatuses, d \in GatewayData :
       (FindByReference(pays, ref) = 0 /\ verifyPayment(q, ref, ok, st, d)) =>
         /\ preqs'[q].pc = "done"
         /\ preqs'[q].response = Resp(404, "PaymentNotFound")
         /\ pays' = pays]_vars

HandledEvents == {"charge.success", "charge.failed", "transfer.failed"}

\* C21: a webhook delivery with a verified signature whose event is not
\* charge.success, charge.failed or transfer.failed is answered 200 and
\* changes no Payment, whatever reference its payload carries.
C21_UnknownEventAcknowledged ==
  [][\A q \in PayReqIds, form \in BodyForms, ev \in Events \ HandledEvents,
        ref \in Refs, d \in GatewayData :
       LET raw == RawBody(form, ev, ref, d)
       IN handleWebhook(q, raw, GatewaySignature(raw)) =>
            /\ preqs'[q].pc = "done"
            /\ preqs'[q].response = Resp(200, "OK")
            /\ pays' = pays]_vars

\* C22: in every reachable state, whatever references the gateway returns to
\* the initialize calls, no two Payments hold the same gateway reference.
C22_UniqueGatewayReference ==
  \A i, j \in 1..Len(pays) :
    (pays[i].paystackReference # NoRef
       /\ pays[i].paystackReference = pays[j].paystackReference) => i = j

\* two Payments hold a reference each, and a third initialize call, to which
\* the gateway returned one of these references, has ended in an error with
\* its row left without reference
C22_Witness ==
  /\ Len(pays) = 3
  /\ pays[1].paystackReference # NoRef
  /\ pays[2].paystackReference # NoRef
  /\ pays[3].paystackReference = NoRef
  /\ \E q \in PayReqIds :
       /\ preqs[q].op = "initialize" /\ preqs[q].pc = "done"
       /\ preqs[q].response.kind = "ServerError"
       /\ preqs[q].doc.paystackReference \in
            {pays[1].paystackReference, pays[2].paystackReference}

\* C25: a webhook delivery with a verified signature whose payload carries a
\* reference that no stored Payment holds is answered 404 and changes no
\* Payment, whatever its event.
C25_WebhookUnknownReference ==
  [][\A q \in PayReqIds, ref \in Refs :
       (/\ WebhookArrives(q) /\ preqs'[q].signed
        /\ \A i \in 1..Len(pays) : pays[i].paystackReference # ref
        /\ \E form \in BodyForms, ev \in Events, d \in GatewayData :
             LET raw == RawBody(form, ev, ref, d)
             IN handleWebhook(q, raw, GatewaySignature(raw))) =>
         /\ preqs'[q].pc = "done"
         /\ preqs'[q].response = Resp(404, "PaymentNotFound")
         /\ pays' = pays]_vars

\* a signed delivery was answered 404 while a pending Payment holding a
\* gateway reference was stored
C25_Witness ==
  /\ \E q \in PayReqIds :
       /\ preqs[q].op = "webhook" /\ preqs[q].pc = "done" /\ preqs[q].signed
       /\ preqs[q].response.kind = "PaymentNotFound"
  /\ \E i \in 1..Len(pays) :
       pays[i].paystackReference # NoRef /\ pays[i].status = "pending"

\* the Payment status verifyPayment derives from the gateway's transaction
\* status
StatusFor(st) ==
  IF st = "success" THEN "successful"
  ELSE IF st = "failed" THEN "failed"
  ELSE "abandoned"

\* C28: when the gateway's verify call succeeds and a stored Payment holds the
\* reference, the verify request takes the status from the gateway's
\* transaction status alone (success: successful, failed: failed, anything
\* else: abandoned), and when its save completes the stored Payment has that
\* status, so it is not pending.
C28_VerifyStatusMapping ==
  [][\A q \in PayReqIds :
       /\ \A ref \in Refs, st \in TransactionStatuses, d \in GatewayData :
            (/\ \E i \in 1..Len(pays) : pays[i].paystackReference = ref
             /\ verifyPayment(q, ref, TRUE, st, d)) =>
              preqs'[q].pc = "save" /\ preqs'[q].doc.status = StatusFor(st)
       /\ (preqs[q].op = "verify" /\ preqs[q].pc = "save" /\ preqs'[q].pc = "done") =>
            /\ pays'[preqs[q].id].status = preqs[q].doc.status
            /\ pays'[preqs[q].id].status # "pending"]_vars

\* C29: in every reachable state a Payment whose status is not pending has a
\* stored gateway reference; so a Payment without one, whatever verify calls
\* and webhook deliveries have run, is pending.
C29_SettledHasReference ==
  \A i \in 1..Len(pays) :
    pays[i].status # "pending" => pays[i].paystackReference # NoRef

\* one Payment settled by a reconciler that answered 200, beside a Payment
\* whose initialization ended without a reference and which is still as created
C29_Witness ==
  /\ Len(pays) = 2
  /\ pays[1].status # "pending" /\ pays[1].paystackReference # NoRef
  /\ pays[2] = NewPayment /\ Orphaned(2)
  /\ \E q \in PayReqIds :
       /\ preqs[q].op \in {"verify", "webhook"} /\ preqs[q].pc = "done"
       /\ preqs[q].response.status = 200

====
